---- MODULE Spec2Model ----
(***************************************************************************)
(* A model of File Router (src/file_teleporter_improved.py): the           *)
(* configuration store (ConfigManager.load / save), the per-tab history    *)
(* log (MainWindow._add_history_entry) and the routing of a dropped batch  *)
(* (MainWindow.handle_drop) over a small filesystem.                       *)
(*                                                                         *)
(* Representation.  A path string is the sequence of its components; a     *)
(* trailing separator is a final empty component ("/s/x/" is               *)
(* <<"s","x","">>), and the empty string is <<>>.  The filesystem maps     *)
(* every existing path to "dir" or to the content of a regular file; the   *)
(* root directory is implicit.  Symbolic links and special files are not   *)
(* modelled.  An exception is the pair of its type and the path it names.  *)
(***************************************************************************)
EXTENDS Integers, Sequences, FiniteSets, TLC

VARIABLES
    config,     \* MainWindow.config["tabs"]: the in-memory ordered list of tabs
    persisted,  \* the content of the file at ConfigManager.config_path
    fs,         \* the filesystem the transfers act on
    uuids,      \* the number of identifiers uuid.uuid4() has handed out
    now,        \* the wall clock read by datetime.now()
    dropped,    \* the number of paths dropped so far
    exported,   \* the file export_config wrote, and the config it was written from
    edits,      \* the number of menu and button handlers run so far
    pages,      \* the pages of tab_widget, with their drop areas, and tab_ui
    area,       \* the page whose drop area took the last drop, 0 for none
    last        \* what the last handler was given, did and reported

vars == <<config, persisted, fs, uuids, now, dropped, exported, edits, pages, area, last>>

---------------------------------------------------------------------------
(* Operation modes *)

OP_COPY_REPLACE == "copy_replace"
OP_COPY_NEW == "copy_new"
OP_MOVE_REPLACE == "move_replace"
OP_MOVE_NEW == "move_new"

Operations == {OP_COPY_REPLACE, OP_COPY_NEW, OP_MOVE_REPLACE, OP_MOVE_NEW}

---------------------------------------------------------------------------
(* Paths and the filesystem *)

Last(p) == p[Len(p)]

\* src.rstrip(os.sep)
RECURSIVE Rstrip(_)
Rstrip(p) ==
    IF Len(p) > 0 /\ Last(p) = "" THEN Rstrip(SubSeq(p, 1, Len(p) - 1)) ELSE p

\* os.path.basename: the text after the last separator
Basename(p) == IF Len(p) = 0 THEN "" ELSE Last(p)

\* os.path.join(dest_root, name)
Join(root, name) == Rstrip(root) \o <<name>>

Parent(p) == SubSeq(p, 1, Len(p) - 1)

IsPrefix(p, q) == Len(p) <= Len(q) /\ SubSeq(q, 1, Len(p)) = p

\* os.path.exists: a path with a trailing separator resolves only to a directory
Exists(f, path) ==
    LET p == Rstrip(path)
    IN  /\ Len(p) > 0
        /\ p \in DOMAIN f
        /\ (p # path => f[p] = "dir")

\* os.path.isdir
IsDir(f, path) ==
    LET p == Rstrip(path)
    IN  Len(p) > 0 /\ p \in DOMAIN f /\ f[p] = "dir"

\* the entries of the tree rooted at p, p included
Under(f, p) == {q \in DOMAIN f : IsPrefix(p, q)}

Remove(f, S) == [q \in (DOMAIN f) \ S |-> f[q]]

Write(f, p, v) == [q \in (DOMAIN f) \cup {p} |-> IF q = p THEN v ELSE f[q]]

\* the path of entry q of the tree at s, once the tree is copied to d
Reloc(s, d, q) == d \o SubSeq(q, Len(s) + 1, Len(q))

Exc(type, file) == [type |-> type, file |-> file]
NoExc == Exc("none", <<>>)

Step(f, e) == [fs |-> f, exc |-> e]

\* What is left of a file whose copy was cut short
Truncated == "truncated"

(* shutil.rmtree(path): removes the tree bottom-up and raises at the first  *)
(* entry it cannot remove; the entries removed before that stay removed.    *)
Rmtree(f, path) ==
    LET p == Rstrip(path)
        sub == Under(f, p) \ {p}
        Closed(R) == \A q \in R : \A r \in sub : IsPrefix(q, r) => r \in R
    IN  IF ~Exists(f, path) THEN {Step(f, Exc("FileNotFoundError", p))}
        ELSE IF ~IsDir(f, p) THEN {Step(f, Exc("NotADirectoryError", p))}
        ELSE {Step(Remove(f, Under(f, p)), NoExc)}
             \cup {Step(Remove(f, R), Exc("PermissionError", p)) :
                      R \in {R \in SUBSET sub : Closed(R)}}

\* os.remove(path)
OsRemove(f, path) ==
    IF ~Exists(f, path) THEN {Step(f, Exc("FileNotFoundError", path))}
    ELSE IF IsDir(f, path) THEN {Step(f, Exc("IsADirectoryError", path))}
    ELSE {Step(Remove(f, {path}), NoExc), Step(f, Exc("PermissionError", path))}

(* shutil.copy2(src, dst): a dst that is a directory stands for the entry   *)
(* named like src inside it; the content is written, then the metadata.     *)
Copy2(f, src, dst) ==
    LET d0 == Rstrip(dst)
        d == IF IsDir(f, d0) THEN d0 \o <<Basename(src)>> ELSE d0
    IN  IF ~Exists(f, src) THEN {Step(f, Exc("FileNotFoundError", src))}
        ELSE IF IsDir(f, src) THEN {Step(f, Exc("IsADirectoryError", src))}
        ELSE IF d = src THEN {Step(f, Exc("SameFileError", src))}
        ELSE IF IsDir(f, d) THEN {Step(f, Exc("IsADirectoryError", d))}
        ELSE IF Len(d) > 1 /\ ~IsDir(f, Parent(d))
             THEN {Step(f, Exc("FileNotFoundError", d))}
        ELSE { Step(Write(f, d, f[src]), NoExc),
               \* the source cannot be opened
               Step(f, Exc("PermissionError", src)),
               \* the write stops part-way
               Step(Write(f, d, Truncated), Exc("OSError", d)),
               \* the content is written and copystat fails
               Step(Write(f, d, f[src]), Exc("PermissionError", d)) }

\* os.makedirs(d): d and its missing ancestors become directories
MakeDirs(f, d) ==
    LET anc == {SubSeq(d, 1, k) : k \in 1..Len(d)}
    IN  [q \in (DOMAIN f) \cup anc |-> IF q \in DOMAIN f THEN f[q] ELSE "dir"]

(* shutil.copytree(src, dst): dst must not exist; the entries that cannot   *)
(* be copied are skipped (with what lies under them), collected, and raised *)
(* as one Error once the walk is over.                                      *)
Copytree(f, src, dst) ==
    LET s == Rstrip(src)
        d == Rstrip(dst)
        ents == Under(f, s) \ {s}
        Copied(F) == {q \in ents : ~ \E x \in F : IsPrefix(x, q)}
        Result(F) ==
            LET g == MakeDirs(f, d)
                new == {Reloc(s, d, q) : q \in Copied(F)}
            IN  [r \in (DOMAIN g) \cup new |->
                    IF r \in new
                    THEN f[CHOOSE q \in Copied(F) : Reloc(s, d, q) = r]
                    ELSE g[r]]
    IN  IF ~Exists(f, src) THEN {Step(f, Exc("FileNotFoundError", s))}
        ELSE IF ~IsDir(f, s) THEN {Step(f, Exc("NotADirectoryError", s))}
        ELSE IF Exists(f, d) THEN {Step(f, Exc("FileExistsError", d))}
        \* a target inside the source: the walk descends into its own output
        ELSE IF IsPrefix(s, d) THEN {Step(MakeDirs(f, d), Exc("RecursionError", s))}
        ELSE {Step(Result({}), NoExc), Step(f, Exc("PermissionError", d))}
             \cup {Step(Result(F), Exc("Error", s)) : F \in SUBSET ents}

---------------------------------------------------------------------------
(* The persisted document and ConfigManager.save *)

(* The file is absent, unreadable, not JSON, or holds a JSON value.  A JSON  *)
(* value carries its type t; an object says whether it has the key "tabs"   *)
(* and, if so, whether the value is a list and of which entries; an entry   *)
(* is an object with some of the keys of a tab, or something else.  Of a    *)
(* tab's values only "operation" is taken to be of any JSON type; id, name, *)
(* path and history are, when present, of the type the program writes.      *)
JStr(s) == [t |-> "str", s |-> s]
JNull == [t |-> "null", s |-> ""]
JNum == [t |-> "num", s |-> "5"]
JList == [t |-> "list", s |-> ""]

JObject(has_tabs, is_list, items) ==
    [t |-> "obj", has_tabs |-> has_tabs, is_list |-> is_list, items |-> items]

JsonFile(data) == [kind |-> "json", data |-> data]

DictEntry(fields) == [dict |-> TRUE, fields |-> fields]
OtherEntry == [dict |-> FALSE, fields |-> <<>>]

\* json.dump(data): the document {"tabs": [...]} as it is written to the file
Dump(tabs) ==
    JsonFile(JObject(TRUE, TRUE,
        [i \in 1..Len(tabs) |->
            DictEntry([tabs[i] EXCEPT !.operation = JStr(tabs[i].operation)])]))

\* A file json.load cannot parse
Corrupt == [kind |-> "badjson"]

(* The ways a save can end: the file is written; open(path, "w") fails and  *)
(* the file is left as it was; json.dump fails after open truncated it.     *)
DiskOutcomes == {"ok", "open_fail", "write_fail"}

\* ConfigManager.save that writes nothing
SaveNothing(data, old, disk) == old

\* ConfigManager.save: the file it leaves
Save(data, old, disk) ==
    CASE disk = "ok" -> Dump(data)
      [] disk = "open_fail" -> old
      [] OTHER -> Corrupt

\* the error of a save that does not end well
SaveError(disk) == IF disk = "ok" THEN NoExc ELSE Exc("OSError", <<"config.json">>)

\* except ValueError
ExceptValueError(e) == e.type = "ValueError"

\* except Exception (line 141): the error is printed
SaveExcept(e) == TRUE

\* ConfigManager.save lets an error out to its caller
SaveRaises(disk) == SaveError(disk) # NoExc /\ ~SaveExcept(SaveError(disk))

---------------------------------------------------------------------------
(* Tabs and the history log *)

Tab(id, name, path, operation, history) ==
    [id |-> id, name |-> name, path |-> path, operation |-> operation,
     history |-> history]

\* MainWindow._get_tab_config_by_id: the position of the first tab with that
\* id, 0 for None
GetTabConfigById(tabs, tab_id) ==
    IF \E i \in 1..Len(tabs) : tabs[i].id = tab_id
    THEN CHOOSE i \in 1..Len(tabs) :
            /\ tabs[i].id = tab_id
            /\ \A j \in 1..(i - 1) : tabs[j].id # tab_id
    ELSE 0

(* The pages of the tab widget.  A page carries the id of the tab it was     *)
(* created for and the dest_path of its drop area; ui says that tab_ui, the *)
(* dict keyed by tab id, holds the widgets of this page.                    *)
Page(tab_id, dest_path, ui) == [tab_id |-> tab_id, dest_path |-> dest_path, ui |-> ui]

\* the page tab_ui.get(tab_id) gives, 0 for None
TabUi(pgs, tab_id) ==
    IF \E k \in 1..Len(pgs) : pgs[k].tab_id = tab_id /\ pgs[k].ui
    THEN CHOOSE k \in 1..Len(pgs) : pgs[k].tab_id = tab_id /\ pgs[k].ui
    ELSE 0

\* tab_ui[tab_id] is given up: by an assignment to the key, or by pop
Forget(pgs, tab_id) ==
    [k \in 1..Len(pgs) |->
        IF pgs[k].tab_id = tab_id THEN [pgs[k] EXCEPT !.ui = FALSE] ELSE pgs[k]]

\* MainWindow._update_tab_path_ui: drop_area.set_destination(path)
UpdateTabPathUi(pgs, tab_id, path) ==
    LET k == TabUi(pgs, tab_id)
    IN  IF k = 0 THEN pgs ELSE [pgs EXCEPT ![k].dest_path = path]

\* MainWindow._create_tab: a new page, entered in tab_ui under the tab's id,
\* its drop area set to the tab's path
CreateTab(pgs, tab) ==
    UpdateTabPathUi(Append(Forget(pgs, tab.id), Page(tab.id, <<>>, TRUE)),
                    tab.id, tab.path)

\* the loop of MainWindow._rebuild_tabs over the tabs
RECURSIVE CreateTabs(_, _)
CreateTabs(pgs, tabs) ==
    IF tabs = <<>> THEN pgs ELSE CreateTabs(CreateTab(pgs, Head(tabs)), Tail(tabs))

\* MainWindow._rebuild_tabs: tab_widget.clear(), tab_ui.clear(), the loop
RebuildTabs(tabs) == CreateTabs(<<>>, tabs)

\* tab_widget.removeTab(index) and tab_ui.pop(tab_id, None)
RemoveTab(pgs, index, tab_id) ==
    Forget(SubSeq(pgs, 1, index - 1) \o SubSeq(pgs, index + 1, Len(pgs)), tab_id)

\* DropArea.has_valid_destination
HasValidDestination(f, dest_path) == dest_path # <<>> /\ IsDir(f, dest_path)

\* The number of entries a tab's history keeps
HISTORY_LIMIT == 200

\* history[:] = history[:200]
KeepFirst(history) == SubSeq(history, 1, HISTORY_LIMIT)

\* history[:] = history[-200:]
KeepLast(history) ==
    SubSeq(history, Len(history) - HISTORY_LIMIT + 1, Len(history))

Entry(timestamp, operation, src, dest, result) ==
    [timestamp |-> timestamp, operation |-> operation, source |-> src,
     destination |-> dest, result |-> result]

\* _add_history_entry with history.insert(0, entry) for history.append(entry)
AddHistoryEntryFirst(st, tab_id, entry, disk) ==
    LET i == GetTabConfigById(st.config, tab_id)
    IN  IF i = 0 THEN st
        ELSE LET history == <<entry>> \o st.config[i].history
                 kept == IF Len(history) > HISTORY_LIMIT
                         THEN KeepLast(history) ELSE history
                 tabs == [st.config EXCEPT ![i].history = kept]
             IN  [config |-> tabs,
                  persisted |-> Save(tabs, st.persisted, disk),
                  saves |-> st.saves + 1]

(* MainWindow._add_history_entry on the store st = [config, persisted,      *)
(* saves]: append to the first tab with that id, trim, save.                *)
AddHistoryEntry(st, tab_id, entry, disk) ==
    LET i == GetTabConfigById(st.config, tab_id)
    IN  IF i = 0 THEN st
        ELSE LET history == Append(st.config[i].history, entry)
                 kept == IF Len(history) > HISTORY_LIMIT
                         THEN KeepLast(history) ELSE history
                 tabs == [st.config EXCEPT ![i].history = kept]
             IN  [config |-> tabs,
                  persisted |-> Save(tabs, st.persisted, disk),
                  saves |-> st.saves + 1]

---------------------------------------------------------------------------
(* MainWindow.handle_drop *)

\* the history results
Success == [status |-> "success", detail |-> NoExc]
Skipped == [status |-> "skipped", detail |-> Exc("target exists, NEW only", <<>>)]
Failed(e) == [status |-> "failed", detail |-> e]

\* f"Source does not exist: {src}"
SourceMissing(src) == Exc("Source does not exist", src)

\* the replace step: shutil.rmtree(target) before a directory is copied
ReplaceStep(f, mode, src, target, exists) ==
    IF IsDir(f, src) /\ exists /\ mode \in {OP_COPY_REPLACE, OP_MOVE_REPLACE}
    THEN Rmtree(f, target)
    ELSE {Step(f, NoExc)}

\* the copy step with os.mkdir(target) for shutil.copytree(src, target)
CopyStepShallow(f, srcIsDir, src, target) ==
    IF srcIsDir
    THEN IF Exists(f, target) THEN {Step(f, Exc("FileExistsError", target))}
         ELSE {Step(Write(f, target, "dir"), NoExc)}
    ELSE Copy2(f, src, target)

\* the copy step: shutil.copytree for a directory, shutil.copy2 otherwise
CopyStep(f, srcIsDir, src, target) ==
    IF srcIsDir THEN Copytree(f, src, target) ELSE Copy2(f, src, target)

\* the move step with OP_MOVE_REPLACE left out
MoveStepNewOnly(f, mode, src) ==
    IF mode = OP_MOVE_NEW
    THEN IF IsDir(f, src) THEN Rmtree(f, src) ELSE OsRemove(f, src)
    ELSE {Step(f, NoExc)}

\* the move step: delete the source
MoveStep(f, mode, src) ==
    IF mode \in {OP_MOVE_REPLACE, OP_MOVE_NEW}
    THEN IF IsDir(f, src) THEN Rmtree(f, src) ELSE OsRemove(f, src)
    ELSE {Step(f, NoExc)}

\* the skip with OP_MOVE_NEW left out
SkipExistingCopyOnly(mode, exists) == mode = OP_COPY_NEW /\ exists

\* if mode in (OP_COPY_NEW, OP_MOVE_NEW) and exists: skip
SkipExisting(mode, exists) == mode \in {OP_COPY_NEW, OP_MOVE_NEW} /\ exists

\* except shutil.Error
ExceptShutilError(e) == e.type \in {"Error", "SameFileError"}

\* except Exception (line 1155)
DropExcept(e) == TRUE

Item(f, src, target, exists, result, step, raised) ==
    [fs |-> f, src |-> src, target |-> target, exists |-> exists,
     result |-> result, step |-> step, raised |-> raised]

\* a step of the try block raised e: the except clause records it, or e leaves
\* the handler
Raise(f, src, target, exists, e, step) ==
    IF DropExcept(e) THEN Item(f, src, target, exists, Failed(e), step, NoExc)
    ELSE Item(f, src, target, exists, Failed(e), step, e)

(* One pass of the loop body over src: the set of ways it can end.  `step`  *)
(* names where the pass left the straight path: "missing", "skip", the step *)
(* that raised ("replace", "copy", "move"), or "none".                      *)
ProcessItem(f, mode, dest_root, src) ==
    IF ~Exists(f, src)
    THEN {Item(f, src, <<>>, FALSE, Failed(SourceMissing(src)), "missing", NoExc)}
    ELSE
    LET name == Basename(Rstrip(src))
        target == Join(dest_root, name)
        exists == Exists(f, target)
        srcIsDir == IsDir(f, src)
    IN  IF SkipExisting(mode, exists)
        THEN {Item(f, src, target, exists, Skipped, "skip", NoExc)}
        ELSE UNION { IF r.exc # NoExc
                     THEN {Raise(r.fs, src, target, exists, r.exc, "replace")}
                     ELSE UNION { IF c.exc # NoExc
                                  THEN {Raise(c.fs, src, target, exists, c.exc, "copy")}
                                  ELSE { IF m.exc # NoExc
                                         THEN Raise(m.fs, src, target, exists, m.exc, "move")
                                         ELSE Item(m.fs, src, target, exists, Success, "none", NoExc)
                                         : m \in MoveStep(c.fs, mode, src) }
                                  : c \in CopyStep(r.fs, srcIsDir, src, target) }
                     : r \in ReplaceStep(f, mode, src, target, exists) }

\* f"Failed to {mode} '{src}': {e}", or the message of a missing source
FailureMessage(mode, it) ==
    IF it.step = "missing" THEN [mode |-> "", src |-> it.src, exc |-> it.result.detail]
    ELSE [mode |-> mode, src |-> it.src, exc |-> it.result.detail]

\* successes += 1 placed before the move step
CountedSuccessEarly(it) == it.result.status = "success" \/ it.step = "move"

\* successes += 1 (line 1150): reached when no step raised
CountedSuccess(it) == it.result.status = "success"

\* failures += 1 in the except clause only
CountedFailureCaught(it) == it.result.status = "failed" /\ it.step # "missing"

\* failures += 1 (lines 1108 and 1156)
CountedFailure(it) == it.result.status = "failed"

(* The state of a running batch, and the loop over src_paths.  Every pass   *)
(* records its outcome with _add_history_entry; `items` logs, per pass, the *)
(* filesystem before and after it.                                          *)
Record(b, tab_id, mode, it, disk, clock) ==
    LET st == AddHistoryEntry([config |-> b.config, persisted |-> b.persisted,
                               saves |-> b.saves],
                              tab_id,
                              Entry(clock, mode, it.src, it.target, it.result),
                              disk)
    IN  [fs |-> it.fs, config |-> st.config, persisted |-> st.persisted,
         saves |-> st.saves, raised |-> FALSE,
         successes |-> b.successes + (IF CountedSuccess(it) THEN 1 ELSE 0),
         failures |-> b.failures + (IF CountedFailure(it) THEN 1 ELSE 0),
         failure_messages |-> IF CountedFailure(it)
                              THEN Append(b.failure_messages, FailureMessage(mode, it))
                              ELSE b.failure_messages,
         items |-> Append(b.items, [src |-> it.src, target |-> it.target,
                                    exists |-> it.exists, result |-> it.result,
                                    step |-> it.step, pre |-> b.fs, post |-> it.fs])]

\* disks gives, per pass, how the save of that pass ends; an error that
\* save lets out leaves the handler
RECURSIVE Loop(_, _, _, _, _, _, _)
Loop(b, tab_id, mode, dest_root, srcs, disks, clock) ==
    IF srcs = <<>> THEN {b}
    ELSE UNION { IF it.raised # NoExc
                 THEN {[b EXCEPT !.fs = it.fs, !.raised = TRUE]}
                 ELSE IF SaveRaises(Head(disks))
                 THEN {[Record(b, tab_id, mode, it, Head(disks), clock)
                           EXCEPT !.raised = TRUE]}
                 ELSE Loop(Record(b, tab_id, mode, it, Head(disks), clock),
                           tab_id, mode, dest_root, Tail(srcs), Tail(disks), clock)
                 : it \in ProcessItem(b.fs, mode, dest_root, Head(srcs)) }

Batch0 ==
    [fs |-> fs, config |-> config, persisted |-> persisted, saves |-> 0,
     raised |-> FALSE, successes |-> 0, failures |-> 0,
     failure_messages |-> <<>>, items |-> <<>>]

Pre == [config |-> config, persisted |-> persisted, fs |-> fs, pages |-> pages]

Report(tab_id, srcs, disks, outcome, b) ==
    [op |-> "handle_drop", tab_id |-> tab_id, srcs |-> srcs, disks |-> disks,
     outcome |-> outcome,
     raised |-> b.raised, pre |-> Pre, saves |-> b.saves, successes |-> b.successes,
     failures |-> b.failures, failure_messages |-> b.failure_messages,
     items |-> b.items]

\* the check with os.path.exists for os.path.isdir
ExistingDestination(f, dest_root) == dest_root # <<>> /\ Exists(f, dest_root)

\* dest_root is set and os.path.isdir(dest_root) (lines 1094-1095)
ValidDestination(f, dest_root) == dest_root # <<>> /\ IsDir(f, dest_root)

HandleDrop(tab_id, srcs, disks) ==
    LET i == GetTabConfigById(config, tab_id)
    IN  IF i = 0
        THEN /\ last' = Report(tab_id, srcs, disks, "tab not found", Batch0)
             /\ UNCHANGED <<config, persisted, fs, uuids, now>>
        ELSE
        LET tab == config[i]
            dest_root == tab.path
        IN  IF ~ValidDestination(fs, dest_root)
            THEN /\ last' = Report(tab_id, srcs, disks, "no valid destination", Batch0)
                 /\ UNCHANGED <<config, persisted, fs, uuids, now>>
            ELSE \E b \in Loop(Batch0, tab_id, tab.operation, dest_root, srcs, disks, now) :
                    /\ fs' = b.fs
                    /\ config' = b.config
                    /\ persisted' = b.persisted
                    /\ last' = Report(tab_id, srcs, disks, "done", b)
                    /\ UNCHANGED <<uuids, now>>

---------------------------------------------------------------------------
(* The routing specification: batches dropped on the tabs of a loaded       *)
(* configuration.                                                           *)

\* The most paths dropped in one run, over all its batches
MaxDropped == 2

File1 == "c1"
File2 == "c2"

(* /d holds a directory x (with a file y) and a file f; /s holds a          *)
(* directory x (with a file x) and the files f and g.                       *)
InitFs ==
    (<<"d">> :> "dir") @@ (<<"d", "x">> :> "dir") @@ (<<"d", "x", "y">> :> File2)
    @@ (<<"d", "f">> :> File2)
    @@ (<<"s">> :> "dir") @@ (<<"s", "x">> :> "dir") @@ (<<"s", "x", "x">> :> File1)
    @@ (<<"s", "f">> :> File1) @@ (<<"s", "g">> :> File1)

\* The destinations a loaded tab may carry: none, a directory, a path that
\* does not exist, a file
InitPaths == {<<>>, <<"d">>, <<"nodir">>, <<"s", "f">>}

InitConfigs ==
    { <<Tab("t1", "A", p, o, <<>>), Tab("t2", "B", <<>>, OP_MOVE_NEW, <<>>)>> :
        p \in InitPaths, o \in Operations }

\* The paths a drop may carry
Sources ==
    { <<"s", "m">>, <<"s", "f">>, <<"s", "g">>, <<"s", "x">>, <<"s", "x", "">>,
      <<"s", "x", "x">>, <<"d", "f">>, <<"d", "x">> }

\* The tab ids a drop area may hold: those of the tabs, and one of a tab
\* that is gone
DropTabIds == {"t1", "t2", "t0"}

Idle == [op |-> "init"]

\* export_config has written no file
NoExport == [file |-> [kind |-> "absent"], config |-> <<>>]

Init ==
    /\ config \in InitConfigs
    /\ persisted = Dump(config)
    /\ fs = InitFs
    /\ uuids = 0
    /\ now = 0
    /\ dropped = 0
    /\ exported = NoExport
    /\ edits = 0
    /\ pages = RebuildTabs(config)
    /\ area = 0
    /\ last = Idle

Drop ==
    \E tab_id \in DropTabIds, n \in 1..(MaxDropped - dropped) :
        \E srcs \in [1..n -> Sources] :
            /\ HandleDrop(tab_id, srcs, [i \in 1..n |-> "ok"])
            /\ dropped' = dropped + n
            /\ UNCHANGED <<exported, edits, pages, area>>

Next == Drop

Spec == Init /\ [][Next]_vars

---------------------------------------------------------------------------
(* ConfigManager.load *)

\* str(uuid.uuid4()), the n-th identifier handed out
Uuid(n) == "uuid-" \o ToString(n)

\* range(1, 6): the tabs of the default configuration
DEFAULT_TABS == 5

\* generate_default_config, n identifiers having been handed out
GenerateDefaultConfig(n) ==
    [i \in 1..DEFAULT_TABS |->
        Tab(Uuid(n + i), "L" \o ToString(i), <<>>, OP_COPY_REPLACE, <<>>)]

\* t.setdefault(key, value)
SetDefault(t, key, value) == IF key \in DOMAIN t THEN t ELSE t @@ (key :> value)

\* set membership hashes its left operand: a list or a dict has no hash
Hashable(v) == v.t \notin {"list", "obj"}

(* The operation a tab is given (lines 114-126): a result or a TypeError.   *)
NormalizeOperation(t) ==
    LET op == IF "operation" \in DOMAIN t THEN t.operation ELSE JStr(OP_COPY_REPLACE)
    IN  IF op = JStr("copy") THEN [exc |-> NoExc, op |-> OP_COPY_REPLACE]
        ELSE IF op = JStr("move") THEN [exc |-> NoExc, op |-> OP_MOVE_REPLACE]
        ELSE IF ~Hashable(op) THEN [exc |-> Exc("TypeError", <<>>), op |-> ""]
        ELSE IF op \notin {JStr(o) : o \in Operations}
             THEN [exc |-> NoExc, op |-> OP_COPY_REPLACE]
        ELSE [exc |-> NoExc, op |-> op.s]

(* The loop over data["tabs"] (lines 108-129), n identifiers having been    *)
(* handed out: uuid4() is called for every tab, used or not.                *)
RECURSIVE NormalizeTabs(_, _, _)
NormalizeTabs(items, done, n) ==
    IF items = <<>> THEN [exc |-> NoExc, tabs |-> done, uuids |-> n]
    ELSE LET e == Head(items)
         IN  IF ~e.dict
             THEN [exc |-> Exc("AttributeError", <<>>), tabs |-> done, uuids |-> n]
             ELSE LET t1 == SetDefault(e.fields, "id", Uuid(n + 1))
                      t2 == SetDefault(t1, "name", "Unnamed")
                      t3 == SetDefault(t2, "path", <<>>)
                      o == NormalizeOperation(t3)
                      t4 == SetDefault(t3, "history", <<>>)
                  IN  IF o.exc # NoExc
                      THEN [exc |-> o.exc, tabs |-> done, uuids |-> n + 1]
                      ELSE NormalizeTabs(Tail(items),
                               Append(done, Tab(t4.id, t4.name, t4.path, o.op, t4.history)),
                               n + 1)

\* the body of the try block (lines 102-131)
LoadBody(doc, n) ==
    LET default == [exc |-> NoExc, tabs |-> GenerateDefaultConfig(n), uuids |-> n + DEFAULT_TABS]
    IN  IF doc.kind = "unreadable" THEN [exc |-> Exc("PermissionError", <<>>), tabs |-> <<>>, uuids |-> n]
        ELSE IF doc.kind = "badjson" THEN [exc |-> Exc("JSONDecodeError", <<>>), tabs |-> <<>>, uuids |-> n]
        \* "tabs" not in data: a number and null are not containers
        ELSE IF doc.data.t \in {"null", "num"} THEN [exc |-> Exc("TypeError", <<>>), tabs |-> <<>>, uuids |-> n]
        ELSE IF doc.data.t \in {"str", "list"} THEN default
        ELSE IF ~doc.data.has_tabs \/ ~doc.data.is_list THEN default
        ELSE NormalizeTabs(doc.data.items, <<>>, n)

\* except (OSError, ValueError)
ExceptOSError(e) == e.type \in {"PermissionError", "JSONDecodeError"}

\* except Exception (line 132)
LoadExcept(e) == TRUE

\* ConfigManager.load: the tabs, the identifiers handed out, what is raised
Load(doc, n) ==
    IF doc.kind = "absent"
    THEN [raised |-> NoExc, tabs |-> GenerateDefaultConfig(n), uuids |-> n + DEFAULT_TABS]
    ELSE LET r == LoadBody(doc, n)
         IN  IF r.exc = NoExc THEN [raised |-> NoExc, tabs |-> r.tabs, uuids |-> r.uuids]
             ELSE IF LoadExcept(r.exc)
                  THEN [raised |-> NoExc, tabs |-> GenerateDefaultConfig(r.uuids),
                        uuids |-> r.uuids + DEFAULT_TABS]
                  ELSE [raised |-> r.exc, tabs |-> <<>>, uuids |-> r.uuids]

---------------------------------------------------------------------------
(* The loading specification: MainWindow.__init__ loads whatever the file   *)
(* holds.                                                                   *)

\* The most tabs of a document
MaxDocTabs == 2

DocOperations ==
    {JStr(o) : o \in Operations \cup {"copy", "move", "sync"}} \cup {JNull, JNum, JList}

DocEntry0 ==
    [id |-> "t1", name |-> "A", path |-> <<"d">>, operation |-> JStr("copy"),
     history |-> <<Entry(0, OP_COPY_NEW, <<"s", "f">>, <<"d", "f">>, Skipped)>>]

Restrict(t, keys) == [k \in keys |-> t[k]]

\* a history longer than the limit
LongHistory ==
    [k \in 1..(HISTORY_LIMIT + 1) |->
        Entry(k, OP_COPY_NEW, <<"s", "f">>, <<"d", "f">>, Skipped)]

\* The key sets of the tab objects of a document
DocKeys ==
    { DOMAIN DocEntry0, (DOMAIN DocEntry0) \ {"operation"}, (DOMAIN DocEntry0) \ {"id"},
      {"operation"}, {} }

DocEntries ==
    {OtherEntry} \cup
    { DictEntry(Restrict([DocEntry0 EXCEPT !.id = id, !.operation = o], keys)) :
        id \in {"t1", "t2"}, o \in DocOperations, keys \in DocKeys }

Docs ==
    { [kind |-> k] : k \in {"absent", "unreadable", "badjson"} }
    \cup { JsonFile(v) : v \in {JNull, JNum, JStr("x"), JList} }
    \cup { JsonFile(JObject(FALSE, FALSE, <<>>)), JsonFile(JObject(TRUE, FALSE, <<>>)) }
    \cup { JsonFile(JObject(TRUE, TRUE, items)) :
             items \in UNION { [1..n -> DocEntries] : n \in 0..MaxDocTabs } }
    \cup { Dump(<<Tab("t1", "A", <<"d">>, OP_MOVE_NEW, LongHistory)>>) }

InitLoad ==
    /\ persisted \in Docs
    /\ config = <<>>
    /\ fs = InitFs
    /\ uuids = 0
    /\ now = 0
    /\ dropped = 0
    /\ exported = NoExport
    /\ edits = 0
    /\ pages = RebuildTabs(config)
    /\ area = 0
    /\ last = Idle

\* self.config = self.config_manager.load()
Construct ==
    /\ last = Idle
    /\ LET r == Load(persisted, uuids)
       IN  /\ config' = r.tabs
           /\ uuids' = r.uuids
           /\ last' = [op |-> "load", doc |-> persisted, raised |-> r.raised # NoExc]
    /\ pages' = RebuildTabs(config')
    /\ UNCHANGED <<persisted, fs, now, dropped, exported, edits, area>>

NextLoad == Construct

SpecLoad == InitLoad /\ [][NextLoad]_vars

---------------------------------------------------------------------------
(* The history specification: _add_history_entry called over and over on   *)
(* one tab, the clock advancing between the calls.                          *)

\* The most entries appended in one run
MaxAppends == 203

InitHistory ==
    /\ config = <<Tab("t1", "A", <<"d">>, OP_COPY_REPLACE, <<>>),
                  Tab("t2", "B", <<>>, OP_MOVE_NEW, <<>>)>>
    /\ persisted = Dump(config)
    /\ fs = InitFs
    /\ uuids = 0
    /\ now = 0
    /\ dropped = 0
    /\ exported = NoExport
    /\ edits = 0
    /\ pages = RebuildTabs(config)
    /\ area = 0
    /\ last = [op |-> "add_history_entry", tab_id |-> "", appended |-> <<>>]

AddEntry(tab_id) ==
    /\ now < MaxAppends
    /\ last.appended = <<>> \/ last.tab_id = tab_id
    /\ LET i == GetTabConfigById(config, tab_id)
           entry == Entry(now, config[i].operation, <<"s", "f">>, <<"d", "f">>, Success)
           st == AddHistoryEntry([config |-> config, persisted |-> persisted, saves |-> 0],
                                 tab_id, entry, "ok")
       IN  /\ config' = st.config
           /\ persisted' = st.persisted
           /\ last' = [op |-> "add_history_entry", tab_id |-> tab_id,
                       appended |-> Append(last.appended, entry)]
    /\ now' = now + 1
    /\ UNCHANGED <<fs, uuids, dropped, exported, edits, pages, area>>

NextHistory == \E tab_id \in {"t1", "t2"} : AddEntry(tab_id)

SpecHistory == InitHistory /\ [][NextHistory]_vars

---------------------------------------------------------------------------
(* The tab registry: the handlers of the buttons and menus of MainWindow.   *)
(* Each records in `last` its arguments, the state it found, whether it     *)
(* changed the config, the saves it made and whether an error left it.      *)

Handled(op, arg, disk, applied, saves, raised) ==
    [op |-> op, arg |-> arg, disk |-> disk, pre |-> Pre, applied |-> applied,
     saves |-> saves, raised |-> raised]

\* the handler returns before it changes anything
Returned(op, arg) ==
    /\ last' = Handled(op, arg, "ok", FALSE, 0, FALSE)
    /\ UNCHANGED <<config, persisted, pages>>

\* the handler changes the config to tabs and the pages to pgs, and calls
\* config_manager.save
Applied(op, arg, tabs, pgs, disk) ==
    /\ config' = tabs
    /\ pages' = pgs
    /\ persisted' = Save(tabs, persisted, disk)
    /\ last' = Handled(op, arg, disk, TRUE, 1, SaveRaises(disk))

\* MainWindow.assign_folder; folder is what the directory dialog returns
AssignFolder(tab_id, folder, disk) ==
    LET i == GetTabConfigById(config, tab_id)
        arg == [tab_id |-> tab_id, folder |-> folder]
    IN  /\ IF folder = <<>> \/ i = 0
           THEN Returned("assign_folder", arg)
           ELSE Applied("assign_folder", arg, [config EXCEPT ![i].path = folder],
                        UpdateTabPathUi(pages, tab_id, folder), disk)
        /\ UNCHANGED <<fs, uuids, now, dropped, exported, area>>

\* MainWindow.clear_folder
ClearFolder(tab_id, disk) ==
    LET i == GetTabConfigById(config, tab_id)
        arg == [tab_id |-> tab_id]
    IN  /\ IF i = 0
           THEN Returned("clear_folder", arg)
           ELSE Applied("clear_folder", arg, [config EXCEPT ![i].path = <<>>],
                        UpdateTabPathUi(pages, tab_id, <<>>), disk)
        /\ UNCHANGED <<fs, uuids, now, dropped, exported, area>>

\* MainWindow.set_operation
SetOperation(tab_id, operation, disk) ==
    LET i == GetTabConfigById(config, tab_id)
        arg == [tab_id |-> tab_id, operation |-> operation]
    IN  /\ IF i = 0
           THEN Returned("set_operation", arg)
           ELSE Applied("set_operation", arg,
                        [config EXCEPT ![i].operation = operation], pages, disk)
        /\ UNCHANGED <<fs, uuids, now, dropped, exported, area>>

\* str.strip, on the names the dialogs are given here
Strip(name) ==
    CASE name = " " -> ""
      [] name = " N " -> "N"
      [] OTHER -> name

\* MainWindow.add_tab; (name, ok) is what the input dialog returns
AddTab(name, ok, disk) ==
    LET arg == [name |-> name, ok |-> ok]
        new_tab == Tab(Uuid(uuids + 1), Strip(name), <<>>, OP_COPY_REPLACE, <<>>)
    IN  IF ~ok \/ Strip(name) = ""
        THEN /\ Returned("add_tab", arg)
             /\ UNCHANGED <<fs, uuids, now, dropped, exported, area>>
        ELSE /\ Applied("add_tab", arg, Append(config, new_tab),
                        CreateTab(pages, new_tab), disk)
             /\ uuids' = uuids + 1
             /\ UNCHANGED <<fs, now, dropped, exported, area>>

(* MainWindow.rename_current_tab; index is the position of the selected     *)
(* page, counted from 1, and 0 when there is none.                          *)
RenameCurrentTab(index, new_name, ok, disk) ==
    LET tab_id == IF index = 0 THEN "" ELSE pages[index].tab_id
        arg == [index |-> index, tab_id |-> tab_id, name |-> new_name, ok |-> ok]
    IN  /\ IF index = 0 THEN Returned("rename_current_tab", arg)
           ELSE LET i == GetTabConfigById(config, tab_id)
                IN  IF i = 0 \/ ~ok \/ Strip(new_name) = ""
                    THEN Returned("rename_current_tab", arg)
                    ELSE Applied("rename_current_tab", arg,
                                 [config EXCEPT ![i].name = Strip(new_name)],
                                 pages, disk)
        /\ UNCHANGED <<fs, uuids, now, dropped, exported, area>>

\* MainWindow.delete_current_tab; reply is the answer to the question
DeleteCurrentTab(index, reply, disk) ==
    LET tab_id == IF index = 0 THEN "" ELSE pages[index].tab_id
        arg == [index |-> index, tab_id |-> tab_id, reply |-> reply]
    IN  /\ IF index = 0 THEN Returned("delete_current_tab", arg)
           ELSE IF GetTabConfigById(config, tab_id) = 0 \/ reply # "yes"
                THEN Returned("delete_current_tab", arg)
                ELSE Applied("delete_current_tab", arg,
                             SelectSeq(config, LAMBDA t : t.id # tab_id),
                             RemoveTab(pages, index, tab_id), disk)
        /\ UNCHANGED <<fs, uuids, now, dropped, exported, area>>

(* MainWindow.export_config, a file name having been chosen; disk is how    *)
(* the writing of that file ends.  Nothing of the config changes.           *)
ExportConfig(disk) ==
    /\ exported' = CASE disk = "ok" -> [file |-> Dump(config), config |-> config]
                     [] disk = "open_fail" -> exported
                     [] OTHER -> [file |-> Corrupt, config |-> config]
    /\ last' = Handled("export_config", [file |-> exported'.file], disk, FALSE, 0, FALSE)
    /\ UNCHANGED <<config, persisted, fs, uuids, now, dropped, pages, area>>

\* the three buttons of the import dialog: Yes, No, Cancel
Choices == {"replace", "merge", "cancel"}

\* the data of the file cannot be read (lines 1218-1225)
ImportUnreadable(doc) == doc.kind # "json"

\* "tabs" not in data raises TypeError for data that is no container
ImportTypeError(doc) == doc.data.t \in {"null", "num"}

\* "tabs" not in data or not isinstance(data["tabs"], list) (line 1227)
ImportInvalid(doc) ==
    \/ doc.data.t \in {"str", "list"}
    \/ ~doc.data.has_tabs
    \/ ~doc.data.is_list

\* the loop over data["tabs"] (lines 1235-1253), which repeats that of load
ImportTabs(items, n) == NormalizeTabs(items, <<>>, n)

\* no outcome ends the import
ImportAbortedNever(choice) == FALSE

\* if choice == QMessageBox.Cancel: return
ImportAborted(choice) == choice = "cancel"

\* Merge that drops the tabs whose id an imported tab carries
ImportMergeDedup(tabs, imported) ==
    SelectSeq(tabs, LAMBDA t : \A j \in 1..Len(imported) : imported[j].id # t.id)
    \o imported

\* self.config["tabs"].extend(data["tabs"])
ImportMerge(tabs, imported) == tabs \o imported

\* Replace that keeps the tabs there are and adds the imported ones
ImportReplaceKeeping(tabs, imported) == tabs \o imported

\* self.config = {"tabs": data["tabs"]}
ImportReplace(tabs, imported) == imported

Imported(doc, choice, disk, outcome, tabs, applied, saves, raised) ==
    [op |-> "import_config", doc |-> doc, choice |-> choice, disk |-> disk,
     outcome |-> outcome, imported |-> tabs, pre |-> Pre, applied |-> applied,
     saves |-> saves, raised |-> raised]

(* MainWindow.import_config on the file doc; choice is the button pressed   *)
(* if the dialog is reached.  The checks and the loop before the dialog are *)
(* in no try block: their errors leave the handler.                        *)
ImportConfig(doc, choice, disk) ==
    LET Rejected(outcome, raised) ==
            /\ last' = Imported(doc, "none", "ok", outcome, <<>>, FALSE, 0, raised)
            /\ UNCHANGED <<config, persisted, uuids, pages>>
    IN  /\ IF ImportUnreadable(doc) THEN Rejected("unreadable", FALSE)
           ELSE IF ImportTypeError(doc) THEN Rejected("raised", TRUE)
           ELSE IF ImportInvalid(doc) THEN Rejected("invalid", FALSE)
           ELSE
           LET r == ImportTabs(doc.data.items, uuids)
           IN  /\ uuids' = r.uuids
               /\ IF r.exc # NoExc
                  THEN /\ last' = Imported(doc, "none", "ok", "raised", <<>>, FALSE, 0, TRUE)
                       /\ UNCHANGED <<config, persisted, pages>>
                  ELSE IF ImportAborted(choice)
                  THEN /\ last' = Imported(doc, choice, "ok", "aborted", r.tabs, FALSE, 0, FALSE)
                       /\ UNCHANGED <<config, persisted, pages>>
                  ELSE LET tabs == CASE choice = "replace" -> ImportReplace(config, r.tabs)
                                     [] choice = "merge" -> ImportMerge(config, r.tabs)
                                     [] OTHER -> config
                       IN  /\ config' = tabs
                           /\ pages' = RebuildTabs(tabs)
                           /\ persisted' = Save(tabs, persisted, disk)
                           /\ last' = Imported(doc, choice, disk, "applied", r.tabs,
                                               TRUE, 1, SaveRaises(disk))
        /\ UNCHANGED <<fs, now, dropped, exported, area>>

---------------------------------------------------------------------------
(* The registry specification: the window is constructed over a persisted   *)
(* document, then its handlers run in any order, every save and export      *)
(* ending in any of the ways a write can end.                               *)

\* The most handlers run, a batch counting once per path
MaxEdits == 2

\* The documents the window may be constructed over
StoreDocs ==
    { Dump(<<Tab("t1", "A", <<"d">>, OP_COPY_REPLACE, <<>>),
             Tab("t2", "B", <<>>, OP_MOVE_NEW, <<>>)>>),
      JsonFile(JObject(TRUE, TRUE,
          <<DictEntry([id |-> "t1", name |-> "A", path |-> <<"d">>,
                       operation |-> JStr("move"), history |-> <<>>])>>)) }

\* The documents an import may be given, besides the exported one
ImportDocs ==
    { [kind |-> "badjson"],
      JsonFile(JNum),
      JsonFile(JObject(TRUE, FALSE, <<>>)),
      JsonFile(JObject(TRUE, TRUE,
          <<DictEntry([id |-> "t1", name |-> "C", path |-> <<"s">>,
                       operation |-> JStr("copy")]),
            DictEntry([name |-> "D", path |-> <<"d">>, operation |-> JStr(OP_MOVE_NEW),
                       history |-> <<>>])>>)),
      JsonFile(JObject(TRUE, TRUE, <<DictEntry([id |-> "t3", operation |-> JList])>>)) }

NameInputs == {" ", " N "}

\* The modes the radio buttons are set to here
SetOperations == {OP_COPY_NEW, OP_MOVE_REPLACE}

StoreSources == {<<"s", "m">>, <<"s", "g">>}

\* the buttons of the pages carry the ids of the tabs they were created for
TabIds == {pages[k].tab_id : k \in 1..Len(pages)}

InitStore ==
    /\ persisted \in StoreDocs
    /\ config = Load(persisted, 0).tabs
    /\ fs = InitFs
    /\ uuids = Load(persisted, 0).uuids
    /\ now = 0
    /\ dropped = 0
    /\ exported = NoExport
    /\ edits = 0
    /\ pages = RebuildTabs(config)
    /\ area = 0
    /\ last = Idle

Edit(A) == edits < MaxEdits /\ A /\ edits' = edits + 1

Assign == \E t \in TabIds, folder \in {<<>>, <<"d">>}, disk \in DiskOutcomes :
            Edit(AssignFolder(t, folder, disk))

Clear == \E t \in TabIds, disk \in DiskOutcomes : Edit(ClearFolder(t, disk))

SetOp == \E t \in TabIds, o \in SetOperations, disk \in DiskOutcomes :
            Edit(SetOperation(t, o, disk))

Add == \E name \in NameInputs, ok \in BOOLEAN, disk \in DiskOutcomes :
            Edit(AddTab(name, ok, disk))

Rename == \E index \in 0..Len(pages), name \in NameInputs, ok \in BOOLEAN,
             disk \in DiskOutcomes :
            /\ (index = 0) = (pages = <<>>)
            /\ Edit(RenameCurrentTab(index, name, ok, disk))

Delete == \E index \in 0..Len(pages), reply \in {"yes", "no"}, disk \in DiskOutcomes :
            /\ (index = 0) = (pages = <<>>)
            /\ Edit(DeleteCurrentTab(index, reply, disk))

Export == \E disk \in DiskOutcomes : Edit(ExportConfig(disk))

Import == \E doc \in ImportDocs \cup {exported.file}, choice \in Choices,
             disk \in DiskOutcomes :
            Edit(ImportConfig(doc, choice, disk))

(* DropArea.dropEvent of the drop area of page index, local paths being     *)
(* dropped: the area refuses them unless its own dest_path is a directory,  *)
(* and else hands them to handle_drop under its tab_id.                     *)
DropEvent(index, srcs, disks) ==
    IF ~HasValidDestination(fs, pages[index].dest_path)
    THEN /\ last' = [op |-> "drop_event", index |-> index, srcs |-> srcs,
                     outcome |-> "ignored", pre |-> Pre]
         /\ area' = 0
         /\ UNCHANGED <<config, persisted, fs, uuids, now>>
    ELSE /\ HandleDrop(pages[index].tab_id, srcs, disks)
         /\ area' = index

DropStore ==
    \E index \in 1..Len(pages), n \in 1..(MaxEdits - edits) :
        \E srcs \in [1..n -> StoreSources], disks \in [1..n -> DiskOutcomes] :
            /\ DropEvent(index, srcs, disks)
            /\ edits' = edits + n
            /\ UNCHANGED <<dropped, exported, pages>>

NextStore ==
    \/ Assign
    \/ Clear
    \/ SetOp
    \/ Add
    \/ Rename
    \/ Delete
    \/ Export
    \/ Import
    \/ DropStore

SpecStore == InitStore /\ [][NextStore]_vars

---------------------------------------------------------------------------
(* Properties of the history log (SpecHistory) *)

History(tabs, tab_id) == tabs[GetTabConfigById(tabs, tab_id)].history

Min(a, b) == IF a <= b THEN a ELSE b

(* C1: after any sequence of appends to a tab, its history has at most 200  *)
(* entries, and they are the most recently appended ones in the order they  *)
(* were appended; the other tabs' histories stay empty.                     *)
C1_HistoryKeepsMostRecent ==
    \A i \in 1..Len(config) :
        LET h == config[i].history
            a == IF config[i].id = last.tab_id THEN last.appended ELSE <<>>
        IN  /\ Len(h) <= HISTORY_LIMIT
            /\ Len(h) = Min(Len(a), HISTORY_LIMIT)
            /\ h = SubSeq(a, Len(a) - Len(h) + 1, Len(a))

\* more entries were appended than the history keeps
C1_Witness ==
    /\ Len(last.appended) > HISTORY_LIMIT
    /\ Len(History(config, last.tab_id)) = HISTORY_LIMIT

---------------------------------------------------------------------------
(* Properties of a dropped batch (Spec) *)

Dropped == last.op = "handle_drop"

\* the tab the batch was dropped on, as it was when the batch was dropped
DropTabIndex == GetTabConfigById(last.pre.config, last.tab_id)
DropTab == last.pre.config[DropTabIndex]

\* a batch dropped on a tab whose destination is an existing directory
ValidDrop ==
    /\ Dropped
    /\ DropTabIndex # 0
    /\ DropTab.path # <<>>
    /\ IsDir(last.pre.fs, DropTab.path)

\* a batch dropped on a tab whose destination is empty or no directory
InvalidDrop ==
    /\ Dropped
    /\ DropTabIndex # 0
    /\ (DropTab.path = <<>> \/ ~IsDir(last.pre.fs, DropTab.path))

\* the history entry the i-th item of the batch is expected at
EntryOf(i) == History(config, last.tab_id)[Len(DropTab.history) + i]

\* destination/basename(source), trailing separators stripped
TargetOf(src) == DropTab.path \o <<Basename(Rstrip(src))>>

IsFile(f, p) == p \in DOMAIN f /\ f[p] # "dir"

\* the tree at p, by the paths relative to p
TreeAt(f, p) ==
    [rel \in {SubSeq(q, Len(p) + 1, Len(q)) : q \in Under(f, p)} |-> f[p \o rel]]

(* C2: a batch dropped on a tab whose destination is empty or not an        *)
(* existing directory changes no file, appends no history entry, processes  *)
(* no item and saves nothing.                                               *)
C2_InvalidDestinationRejectsBatch ==
    InvalidDrop =>
        /\ fs = last.pre.fs
        /\ config = last.pre.config
        /\ persisted = last.pre.persisted
        /\ last.saves = 0
        /\ last.items = <<>>

\* a batch of two paths dropped on a tab whose destination is set but is no directory
C2_Witness ==
    /\ InvalidDrop
    /\ DropTab.path # <<>>
    /\ Len(last.srcs) = 2
    /\ last.outcome = "no valid destination"

FailSteps == {"missing", "replace", "copy", "move"}

\* the items of the batch that failed, in order
FailedItems == SelectSeq(last.items, LAMBDA it : it.step \in FailSteps)

(* C3: with a valid destination nothing is raised out of handle_drop and    *)
(* every path is attempted, in order; an item whose source is missing or    *)
(* whose replace, copy or move step raised is recorded as a failed history  *)
(* entry and adds exactly one failure message.                              *)
C3_FailureNeverAbortsBatch ==
    ValidDrop =>
        /\ ~last.raised
        /\ Len(last.items) = Len(last.srcs)
        /\ \A i \in 1..Len(last.srcs) :
              /\ last.items[i].src = last.srcs[i]
              /\ last.items[i].step \in FailSteps =>
                    /\ last.items[i].result.status = "failed"
                    /\ EntryOf(i).source = last.srcs[i]
                    /\ EntryOf(i).result = last.items[i].result
        /\ Len(last.failure_messages) = Len(FailedItems)
        /\ \A j \in 1..Len(FailedItems) :
              /\ last.failure_messages[j].src = FailedItems[j].src
              /\ last.failure_messages[j].exc = FailedItems[j].result.detail

\* the first of two items fails in a step of the transfer, the second succeeds
C3_Witness ==
    /\ ValidDrop
    /\ Len(last.items) = 2
    /\ last.items[1].step \in {"replace", "copy", "move"}
    /\ last.items[2].result = Success
    /\ last.failures = 1

(* C4: a batch of n paths dropped on a tab with a valid destination appends *)
(* exactly n entries to that tab's history, after the entries it had, one   *)
(* per path in the order of the paths, whatever the outcomes.               *)
C4_OneEntryPerItemInOrder ==
    ValidDrop =>
        LET h == History(config, last.tab_id)
            n == Len(last.srcs)
            m == Len(DropTab.history)
        IN  /\ Len(h) = m + n
            /\ SubSeq(h, 1, m) = DropTab.history
            /\ Len(last.items) = n
            /\ \A i \in 1..n :
                  /\ h[m + i].source = last.srcs[i]
                  /\ h[m + i].result = last.items[i].result
                  /\ h[m + i].result.status \in {"success", "skipped", "failed"}

\* two items of different outcomes, appended after an entry of an earlier batch
C4_Witness ==
    /\ ValidDrop
    /\ Len(last.srcs) = 2
    /\ last.items[1].result.status = "failed"
    /\ last.items[2].result.status = "skipped"
    /\ last.srcs[1] # last.srcs[2]

\* a single item appended after the entry of an earlier batch
C4_WitnessAppend ==
    /\ ValidDrop
    /\ Len(DropTab.history) = 1
    /\ Len(History(config, last.tab_id)) = 2

(* C5: in copy_new and move_new an item whose target exists is recorded as  *)
(* skipped and the filesystem is as it was before the item.                 *)
C5_NewOnlySkipsExisting ==
    (ValidDrop /\ DropTab.operation \in {OP_COPY_NEW, OP_MOVE_NEW}) =>
        \A i \in 1..Len(last.items) :
            LET it == last.items[i]
            IN  (Exists(it.pre, it.src) /\ Exists(it.pre, TargetOf(it.src))) =>
                    /\ it.result = Skipped
                    /\ EntryOf(i).result = Skipped
                    /\ it.post = it.pre

\* in move_new a directory is dropped whose target exists
C5_Witness ==
    /\ ValidDrop
    /\ DropTab.operation = OP_MOVE_NEW
    /\ \E i \in 1..Len(last.items) :
          /\ IsDir(last.items[i].pre, last.items[i].src)
          /\ Exists(last.items[i].pre, TargetOf(last.items[i].src))
          /\ last.items[i].step = "skip"

(* C6: in move_replace a file with no target, processed without error, is   *)
(* recorded as success, its content is at the target and the source is      *)
(* gone.                                                                    *)
C6_MoveReplaceMovesFile ==
    (ValidDrop /\ DropTab.operation = OP_MOVE_REPLACE) =>
        \A i \in 1..Len(last.items) :
            LET it == last.items[i]
                target == TargetOf(it.src)
            IN  ( /\ IsFile(it.pre, it.src)
                  /\ ~Exists(it.pre, target)
                  /\ it.result.status # "failed" ) =>
                    /\ it.result = Success
                    /\ EntryOf(i).result = Success
                    /\ IsFile(it.post, target)
                    /\ it.post[target] = it.pre[it.src]
                    /\ ~Exists(it.post, it.src)

C6_Witness ==
    /\ ValidDrop
    /\ DropTab.operation = OP_MOVE_REPLACE
    /\ \E i \in 1..Len(last.items) :
          /\ IsFile(last.items[i].pre, last.items[i].src)
          /\ ~Exists(last.items[i].pre, TargetOf(last.items[i].src))
          /\ last.items[i].result = Success

(* C7: in copy_replace a directory whose target is a directory, processed   *)
(* without error, leaves at the target exactly the source tree, and the     *)
(* source tree as it was.                                                   *)
C7_CopyReplaceReplacesTree ==
    (ValidDrop /\ DropTab.operation = OP_COPY_REPLACE) =>
        \A i \in 1..Len(last.items) :
            LET it == last.items[i]
                src == Rstrip(it.src)
                target == TargetOf(it.src)
            IN  ( /\ IsDir(it.pre, src)
                  /\ IsDir(it.pre, target)
                  /\ it.result.status # "failed" ) =>
                    /\ it.result = Success
                    /\ TreeAt(it.post, target) = TreeAt(it.pre, src)
                    /\ TreeAt(it.post, src) = TreeAt(it.pre, src)

\* the old target held an entry the source lacks
C7_Witness ==
    /\ ValidDrop
    /\ DropTab.operation = OP_COPY_REPLACE
    /\ \E i \in 1..Len(last.items) :
          LET it == last.items[i]
              src == Rstrip(it.src)
              target == TargetOf(it.src)
          IN  /\ IsDir(it.pre, src)
              /\ IsDir(it.pre, target)
              /\ it.result = Success
              /\ (DOMAIN TreeAt(it.pre, target)) \ (DOMAIN TreeAt(it.pre, src)) # {}

\* the item's copy step succeeded and the deletion of its source raised
DeleteFailed(it) == it.step = "move"

\* the item's replace or copy step raised
TransferFailed(it) == it.step \in {"replace", "copy"}

\* where the copy step of a file writes: a target that is a directory
\* receives the file inside it
WrittenTo(it) ==
    LET target == TargetOf(it.src)
    IN  IF IsDir(it.pre, target) THEN target \o <<Basename(it.src)>> ELSE target

(* C8, as amended: when the copy succeeded and the deletion of the source   *)
(* raised, the item is recorded as failed with the error of the deletion,   *)
(* it is counted as a failure and not as a success, and what the copy step  *)
(* wrote is still there.                                                    *)
C8_DeleteFailureIsFailureNoRollback ==
    ValidDrop =>
        /\ last.failures = Cardinality({i \in 1..Len(last.items) :
                                            last.items[i].result.status = "failed"})
        /\ last.successes = Cardinality({i \in 1..Len(last.items) :
                                            last.items[i].result.status = "success"})
        /\ \A i \in 1..Len(last.items) :
              LET it == last.items[i]
                  src == Rstrip(it.src)
              IN  DeleteFailed(it) =>
                    /\ DropTab.operation \in {OP_MOVE_REPLACE, OP_MOVE_NEW}
                    /\ it.result.status = "failed"
                    /\ EntryOf(i).result = it.result
                    /\ IF IsDir(it.pre, src)
                       THEN TreeAt(it.post, TargetOf(it.src)) = TreeAt(it.pre, src)
                       ELSE /\ IsFile(it.post, WrittenTo(it))
                            /\ it.post[WrittenTo(it)] = it.pre[it.src]

C8_Witness ==
    /\ ValidDrop
    /\ \E i \in 1..Len(last.items) :
          /\ DeleteFailed(last.items[i])
          /\ IsFile(last.items[i].pre, last.items[i].src)
          /\ Exists(last.items[i].post, last.items[i].src)

\* a directory whose deletion stopped part-way
C8_WitnessTree ==
    /\ ValidDrop
    /\ \E i \in 1..Len(last.items) :
          /\ DeleteFailed(last.items[i])
          /\ IsDir(last.items[i].pre, last.items[i].src)
          /\ TreeAt(last.items[i].post, Rstrip(last.items[i].src))
                # TreeAt(last.items[i].pre, Rstrip(last.items[i].src))

(* C8, as claimed: moreover what is recorded for a failed deletion differs  *)
(* from what is recorded for any failed transfer.                           *)
C8_DeleteFailureIsDistinct ==
    /\ C8_DeleteFailureIsFailureNoRollback
    /\ ValidDrop =>
          \A i, j \in 1..Len(last.items) :
              (DeleteFailed(last.items[i]) /\ TransferFailed(last.items[j])) =>
                  last.items[i].result # last.items[j].result

---------------------------------------------------------------------------
(* Properties of load (SpecLoad) *)

Loaded == last.op = "load"

\* "tabs" is there and is a list
HasTabList(doc) ==
    /\ doc.kind = "json"
    /\ doc.data.t = "obj"
    /\ doc.data.has_tabs
    /\ doc.data.is_list

\* the entry is no object, or its operation cannot be looked up in a set
NotNormalizable(e) ==
    \/ ~e.dict
    \/ ("operation" \in DOMAIN e.fields /\ e.fields.operation.t \in {"list", "obj"})

DefaultNames == <<"L1", "L2", "L3", "L4", "L5">>

IsDefaultConfig(tabs) ==
    /\ Len(tabs) = Len(DefaultNames)
    /\ \A i \in 1..Len(tabs) :
          /\ tabs[i].name = DefaultNames[i]
          /\ tabs[i].path = <<>>
          /\ tabs[i].operation = OP_COPY_REPLACE
          /\ tabs[i].history = <<>>
    /\ \A i, j \in 1..Len(tabs) : i # j => tabs[i].id # tabs[j].id

(* C9: load raises nothing; a file that is absent, unreadable, not JSON or  *)
(* without a list of tabs, or with an entry that cannot be normalized,      *)
(* gives the five default tabs L1..L5, empty, copy_replace, ids distinct.   *)
C9_LoadDegradesToDefault ==
    Loaded =>
        /\ ~last.raised
        /\ ( \/ ~HasTabList(last.doc)
             \/ \E i \in 1..Len(last.doc.data.items) :
                    NotNormalizable(last.doc.data.items[i]) )
           => IsDefaultConfig(config)

\* a document whose second entry cannot be normalized
C9_Witness ==
    /\ Loaded
    /\ HasTabList(last.doc)
    /\ Len(last.doc.data.items) = 2
    /\ ~NotNormalizable(last.doc.data.items[1])
    /\ NotNormalizable(last.doc.data.items[2])
    /\ IsDefaultConfig(config)

\* the operation the claim gives the tab of a document
ExpectedOperation(fields) ==
    IF "operation" \notin DOMAIN fields THEN OP_COPY_REPLACE
    ELSE IF fields.operation = JStr("copy") THEN OP_COPY_REPLACE
    ELSE IF fields.operation = JStr("move") THEN OP_MOVE_REPLACE
    ELSE IF fields.operation \in {JStr(o) : o \in Operations} THEN fields.operation.s
    ELSE OP_COPY_REPLACE

(* C10: load of a document with a list of tab objects gives every tab the   *)
(* operation the claim names: copy and move become copy_replace and         *)
(* move_replace, the four modes stay, a missing or any other value becomes  *)
(* copy_replace.                                                            *)
C10_OperationNormalized ==
    ( /\ Loaded
      /\ HasTabList(last.doc)
      /\ \A i \in 1..Len(last.doc.data.items) : last.doc.data.items[i].dict ) =>
        /\ Len(config) = Len(last.doc.data.items)
        /\ \A i \in 1..Len(config) :
              /\ config[i].operation = ExpectedOperation(last.doc.data.items[i].fields)
              /\ config[i].operation \in Operations

---------------------------------------------------------------------------
(* Properties of import and export (SpecStore) *)

ImportedNow == last.op = "import_config"

\* the import went through the dialog and changed the config
ImportApplied(choice) ==
    /\ ImportedNow
    /\ last.outcome = "applied"
    /\ last.choice = choice

\* the document imported is the one export_config wrote, and wrote whole
ImportOfExport ==
    /\ exported.file.kind = "json"
    /\ last.doc = exported.file

(* C11: importing with Replace the document export_config wrote gives the   *)
(* config the export was made from: the same tabs in the same order, each   *)
(* with the same id, name, path, operation and history.                     *)
C11_ExportImportReplaceRoundTrip ==
    (ImportApplied("replace") /\ ImportOfExport) =>
        /\ Len(config) = Len(exported.config)
        /\ \A i \in 1..Len(config) :
              /\ config[i].id = exported.config[i].id
              /\ config[i].name = exported.config[i].name
              /\ config[i].path = exported.config[i].path
              /\ config[i].operation = exported.config[i].operation
              /\ config[i].history = exported.config[i].history

\* an export of two tabs, one with a destination, imported with Replace
C11_Witness ==
    /\ ImportApplied("replace")
    /\ ImportOfExport
    /\ Len(exported.config) = 2
    /\ exported.config[1].path # <<>>
    /\ config = exported.config

(* C12: an import of a file that cannot be read, or whose data have no list *)
(* "tabs", and an import ended with Cancel, change neither the config nor   *)
(* the persisted document, and save nothing.                                *)
C12_RejectedImportChangesNothing ==
    ( /\ ImportedNow
      /\ \/ ~HasTabList(last.doc)
         \/ last.choice = "cancel" ) =>
        /\ config = last.pre.config
        /\ persisted = last.pre.persisted
        /\ last.saves = 0

\* a document with tabs, normalized, and the dialog ended with Cancel
C12_Witness ==
    /\ ImportedNow
    /\ last.choice = "cancel"
    /\ last.outcome = "aborted"
    /\ Len(last.imported) > 0
    /\ Len(last.pre.config) > 0

\* a document whose "tabs" is no list
C12_WitnessInvalid ==
    /\ ImportedNow
    /\ last.doc.kind = "json"
    /\ ~HasTabList(last.doc)
    /\ last.outcome = "invalid"

\* the tabs an import with Merge added
MergedTabs == SubSeq(config, Len(last.pre.config) + 1, Len(config))

\* a tab as the claim of C13 has it: stored exactly as the document gives it
Verbatim(e, t) == e = Dump(<<t>>).data.items[1]

\* a tab as import_config stores it: the keys that are missing filled in,
\* the operation normalized
Normalized(e, t) ==
    /\ e.dict
    /\ "id" \in DOMAIN e.fields => t.id = e.fields.id
    /\ t.name = IF "name" \in DOMAIN e.fields THEN e.fields.name ELSE "Unnamed"
    /\ t.path = IF "path" \in DOMAIN e.fields THEN e.fields.path ELSE <<>>
    /\ t.history = IF "history" \in DOMAIN e.fields THEN e.fields.history ELSE <<>>
    /\ t.operation = ExpectedOperation(e.fields)

\* Merge keeps the tabs there were, in their places, and adds one tab per
\* tab of the document
MergeAppends ==
    /\ Len(config) = Len(last.pre.config) + Len(last.doc.data.items)
    /\ SubSeq(config, 1, Len(last.pre.config)) = last.pre.config

(* C13, as amended: an import with Merge leaves the tabs there were as they *)
(* were and in their places, and adds after them the tabs of the document,  *)
(* in its order, each normalized as on load; a tab whose id an imported tab *)
(* carries is neither removed nor renamed.                                  *)
C13_MergeAppendsNormalized ==
    ImportApplied("merge") =>
        /\ MergeAppends
        /\ \A j \in 1..Len(MergedTabs) :
              Normalized(last.doc.data.items[j], MergedTabs[j])

\* the document carries the id of a tab there is, and a legacy operation
C13_Witness ==
    /\ ImportApplied("merge")
    /\ \E i \in 1..Len(last.pre.config) :
          /\ last.pre.config[i].id = MergedTabs[1].id
          /\ config[i] = last.pre.config[i]
    /\ last.doc.data.items[1].fields.operation = JStr("copy")
    /\ MergedTabs[1].operation = OP_COPY_REPLACE

(* C13, as claimed: the tabs added are those of the document, verbatim.     *)
C13_MergeAppendsVerbatim ==
    ImportApplied("merge") =>
        /\ MergeAppends
        /\ \A j \in 1..Len(MergedTabs) :
              Verbatim(last.doc.data.items[j], MergedTabs[j])

---------------------------------------------------------------------------
(* Properties of persistence (SpecStore) *)

EditOps ==
    {"assign_folder", "clear_folder", "set_operation", "add_tab",
     "rename_current_tab", "delete_current_tab", "import_config"}

Edited == last.op \in EditOps

(* C14: a handler that changes the config saves it before it returns, and   *)
(* a batch saves once per item; when the save, or the last save of the      *)
(* batch, ends well, the persisted document is the config.                  *)
C14_MutationsAreSaved ==
    /\ Edited =>
          IF last.applied
          THEN /\ last.saves = 1
               /\ last.disk = "ok" => persisted = Dump(config)
          ELSE /\ last.saves = 0
               /\ config = last.pre.config
    /\ ValidDrop =>
          /\ last.saves = Len(last.srcs)
          /\ last.disks[Len(last.srcs)] = "ok" => persisted = Dump(config)

\* a batch of two: the first save fails, the second writes the config
C14_Witness ==
    /\ ValidDrop
    /\ Len(last.srcs) = 2
    /\ last.disks[1] # "ok"
    /\ last.disks[2] = "ok"
    /\ persisted = Dump(config)
    /\ persisted # last.pre.persisted

\* a tab edit written to the file
C14_WitnessEdit ==
    /\ Edited
    /\ last.op = "set_operation"
    /\ last.applied
    /\ config # last.pre.config
    /\ persisted = Dump(config)

\* the tab a handler was run on, in the config it found
ArgTab == GetTabConfigById(last.pre.config, last.arg.tab_id)

\* the change the handler was asked for is in the config
MutationKept ==
    CASE last.op = "assign_folder" -> config[ArgTab].path = last.arg.folder
      [] last.op = "clear_folder" -> config[ArgTab].path = <<>>
      [] last.op = "set_operation" -> config[ArgTab].operation = last.arg.operation
      [] last.op = "add_tab" ->
            /\ Len(config) = Len(last.pre.config) + 1
            /\ Last(config).name = "N"
      [] last.op = "rename_current_tab" ->
            \E i \in 1..Len(config) : config[i].name = "N"
      [] last.op = "delete_current_tab" ->
            \A i \in 1..Len(config) : config[i].id # last.arg.tab_id
      [] last.op = "import_config" ->
            /\ Len(config) >= Len(last.doc.data.items)
            /\ \A j \in 1..Len(last.doc.data.items) :
                  Normalized(last.doc.data.items[j],
                             config[Len(config) - Len(last.doc.data.items) + j])

(* C15: a save that fails raises nothing: the handler ends as it does when  *)
(* the save ends well, the change it made is in the config, and a batch     *)
(* goes on to its last item, each item leaving its history entry.           *)
C15_SaveFailureIsSilent ==
    /\ (Edited /\ last.applied) =>
          /\ ~last.raised
          /\ MutationKept
          /\ last.disk # "ok" => persisted \in {last.pre.persisted, Corrupt}
    /\ ValidDrop =>
          /\ ~last.raised
          /\ Len(last.items) = Len(last.srcs)
          /\ Len(History(config, last.tab_id)) = Len(DropTab.history) + Len(last.srcs)
          /\ \A i \in 1..Len(last.srcs) : EntryOf(i).source = last.srcs[i]

\* a batch of two whose first save fails: both items are there, the file is
\* not the config
C15_Witness ==
    /\ ValidDrop
    /\ Len(last.srcs) = 2
    /\ last.disks[1] # "ok"
    /\ Len(last.items) = 2
    /\ persisted # Dump(config)

\* a tab added while the file cannot be written
C15_WitnessEdit ==
    /\ Edited
    /\ last.op = "add_tab"
    /\ last.applied
    /\ last.disk = "write_fail"
    /\ persisted = Corrupt

---------------------------------------------------------------------------
(* Properties of the registry (SpecStore, SpecLoad) *)

(* C16: in every state no two tabs of the config have the same id.          *)
C16_TabIdsUnique ==
    \A i, j \in 1..Len(config) : i # j => config[i].id # config[j].id

(* C17: in every state every tab's history has at most 200 entries, also    *)
(* directly after load.                                                     *)
C17_HistoryAtMostLimit ==
    \A i \in 1..Len(config) : Len(config[i].history) <= HISTORY_LIMIT

\* every page stands where its tab stands in the config
Aligned(tabs, pgs) ==
    /\ Len(pgs) = Len(tabs)
    /\ \A k \in 1..Len(tabs) : pgs[k].tab_id = tabs[k].id

\* the sequence without its k-th element
Without(seq, k) == SubSeq(seq, 1, k - 1) \o SubSeq(seq, k + 1, Len(seq))

(* C18: a delete that is confirmed removes the selected tab and no other,   *)
(* the others keeping their fields and their order; a delete that is        *)
(* declined changes nothing.                                                *)
C18_DeleteRemovesExactlyOne ==
    (last.op = "delete_current_tab" /\ Aligned(last.pre.config, last.pre.pages)) =>
        IF last.arg.index # 0 /\ last.arg.reply = "yes"
        THEN config = Without(last.pre.config, last.arg.index)
        ELSE config = last.pre.config

---------------------------------------------------------------------------
(* Properties of the transfer of one item (Spec) *)

MoveModes == {OP_MOVE_REPLACE, OP_MOVE_NEW}

ReplaceModes == {OP_COPY_REPLACE, OP_MOVE_REPLACE}

\* after the item the target holds what the source held before it: the tree
\* of a directory, the content of a file (in the target, if the file was
\* copied onto a directory)
TargetHoldsSource(it) ==
    IF IsDir(it.pre, it.src)
    THEN TreeAt(it.post, TargetOf(it.src)) = TreeAt(it.pre, Rstrip(it.src))
    ELSE /\ IsFile(it.post, WrittenTo(it))
         /\ it.post[WrittenTo(it)] = it.pre[it.src]

(* C19: in a move mode, whenever an item's source is gone after the item,   *)
(* the target holds a complete copy of what the source held, also when the  *)
(* source lies in the destination directory.                                *)
C19_MoveDeletesOnlyAfterTransfer ==
    (ValidDrop /\ DropTab.operation \in MoveModes) =>
        \A i \in 1..Len(last.items) :
            LET it == last.items[i]
            IN  (Exists(it.pre, it.src) /\ ~Exists(it.post, Rstrip(it.src))) =>
                    TargetHoldsSource(it)

(* C20: in copy_replace and move_replace a file whose target exists, of     *)
(* whatever kind, and that is recorded as success, leaves at the target a   *)
(* file with the content of the source.                                     *)
C20_ReplaceOverwritesFileTarget ==
    (ValidDrop /\ DropTab.operation \in ReplaceModes) =>
        \A i \in 1..Len(last.items) :
            LET it == last.items[i]
                target == TargetOf(it.src)
            IN  ( /\ IsFile(it.pre, it.src)
                  /\ Exists(it.pre, target)
                  /\ it.result = Success ) =>
                    /\ IsFile(it.post, target)
                    /\ it.post[target] = it.pre[it.src]

CopyModes == {OP_COPY_REPLACE, OP_COPY_NEW}

(* C21: in copy_replace and copy_new every source that exists when its item *)
(* is processed exists after it with the content it had, whatever the       *)
(* item's outcome, also when the source lies in the destination directory.  *)
C21_CopyKeepsSource ==
    (ValidDrop /\ DropTab.operation \in CopyModes) =>
        \A i \in 1..Len(last.items) :
            LET it == last.items[i]
                src == Rstrip(it.src)
            IN  Exists(it.pre, it.src) =>
                    /\ Exists(it.post, it.src)
                    /\ TreeAt(it.post, src) = TreeAt(it.pre, src)

Count(status) ==
    Cardinality({i \in 1..Len(last.items) : last.items[i].result.status = status})

(* C23: for a batch with a valid destination, successes, failures and       *)
(* skipped items add up to the paths submitted; the success count is the    *)
(* number of items recorded success, the failure count the number recorded  *)
(* failed and the number of failure messages; skipped items are counted in  *)
(* neither.                                                                 *)
C23_OutcomesPartitionBatch ==
    ValidDrop =>
        /\ Len(last.items) = Len(last.srcs)
        /\ \A i \in 1..Len(last.items) :
              /\ last.items[i].result.status \in {"success", "failed", "skipped"}
              /\ EntryOf(i).result = last.items[i].result
        /\ last.successes = Count("success")
        /\ last.failures = Count("failed")
        /\ last.failures = Len(last.failure_messages)
        /\ last.successes + last.failures + Count("skipped") = Len(last.srcs)

\* a batch of a missing source and a skipped one
C23_Witness ==
    /\ ValidDrop
    /\ Len(last.srcs) = 2
    /\ last.items[1].step = "missing"
    /\ last.items[2].result = Skipped
    /\ last.successes = 0
    /\ last.failures = 1

\* a batch of a success and a failure of the copy step
C23_WitnessMixed ==
    /\ ValidDrop
    /\ Len(last.srcs) = 2
    /\ last.items[1].result = Success
    /\ last.items[2].step = "copy"
    /\ last.successes = 1
    /\ last.failures = 1

---------------------------------------------------------------------------
(* Properties of a drop on a page (SpecStore) *)

\* a batch the drop area of a page handed to handle_drop, the pages standing
\* where their tabs stand
DroppedOnPage ==
    /\ Dropped
    /\ area # 0
    /\ Aligned(last.pre.config, last.pre.pages)

\* the tab of the page the batch was dropped on
AreaTab == last.pre.config[area]

(* C22: a batch dropped on the page of a tab is routed to that tab's        *)
(* destination with that tab's operation and is logged in that tab's        *)
(* history; the other tabs, and the tab's id, name, path and operation, are *)
(* as they were.                                                            *)
C22_BatchTouchesOnlyItsTab ==
    DroppedOnPage =>
        /\ Len(config) = Len(last.pre.config)
        /\ \A i \in 1..Len(config) : i # area => config[i] = last.pre.config[i]
        /\ config[area] = [AreaTab EXCEPT !.history = config[area].history]
        /\ Len(config[area].history) = Len(AreaTab.history) + Len(last.srcs)
        /\ \A j \in 1..Len(last.srcs) :
              LET e == config[area].history[Len(AreaTab.history) + j]
              IN  /\ e.source = last.srcs[j]
                  /\ e.operation = AreaTab.operation
                  /\ e.destination \in
                        {<<>>, Join(AreaTab.path, Basename(Rstrip(last.srcs[j])))}

====
